---- MODULE Spec2Model ----
(***************************************************************************)
(* State-machine model of BasicWorldDemo (src/main.js): the session flags, *)
(* the scene and its actors, the UI panels and the requestAnimationFrame   *)
(* loop.  One action per event handler / callback of the class.            *)
(***************************************************************************)
EXTENDS Integers, Sequences, FiniteSets, TLC

\* ------------------------------------------------------------------ bounds
\* Largest timestamp (ms) the display-refresh source hands to a callback.
MaxTime == 4
\* Largest number of scene objects constructed over a run.
MaxObjects == 16

\* Depths and zReceiver are multiples of 1/Unit: the value 1.0 is Unit.
Unit == 2
\* Largest zReceiver handed to the shader, in multiples of 1/Unit.
MaxZ == 4

\* --------------------------------------------------------------- constants
\* previousRAF_ = null
Null == -1
\* the divisor of (t - previousRAF_) / 1000.0
MsPerSecond == 1000
\* JavaScript's undefined, as the value of a field never assigned
Undefined == "undefined"
\* the default of _currentCharacter
DefaultCharacter == "Velociraptor"
\* the character ids the player collaborator has assets for
Roster == {"Velociraptor", "Trex"}
\* the values the character-select dropdown can hold
SelectOptions == Roster \cup {"Dodo"}

VARIABLES
    gameStarted,        \* this._gameStarted
    gameOver,           \* this._gameOver
    currentCharacter,   \* this._currentCharacter
    selectValue,        \* document.getElementById("character-select").value
    scene,              \* this.scene_.children, in insertion order
    player,             \* this.player_
    world,              \* this.world_
    background,         \* this.background_
    nextId,             \* number of scene objects constructed so far
    previousRAF,        \* this.previousRAF_
    rafPending,         \* callbacks requested from requestAnimationFrame, not yet run
    menuVisible,        \* #game-menu is displayed
    overPanelActive,    \* #game-over carries the class "active"
    clock,              \* last timestamp the display-refresh source delivered
    ticked,             \* a frame callback has run
    tickLog,            \* the calls made by the most recent frame callback, in order
    lastSelected,       \* the id of the most recent change event, "none" before any
    thrown,             \* a frame callback has ended by an exception
    shader,             \* one evaluation of the PCSS shader function: inputs and result
    lastEvent           \* the most recent event, with the session state it found

vars == <<gameStarted, gameOver, currentCharacter, selectValue, scene, player,
          world, background, nextId, previousRAF, rafPending, menuVisible,
          overPanelActive, clock, ticked, tickLog, lastSelected, thrown, shader,
          lastEvent>>

\* ----------------------------------------------------------- session state
\* The two booleans read as the spec's SessionState.
StateOf(started, over) ==
    IF ~started /\ ~over THEN "Idle"
    ELSE IF started /\ ~over THEN "Playing"
    ELSE IF started /\ over THEN "GameOver"
    ELSE "OverNotStarted"

SessionState == StateOf(gameStarted, gameOver)

\* ------------------------------------------------------------------- scene
Actor(id, kind, character) == [id |-> id, kind |-> kind, character |-> character]

\* THREE.Object3D.remove: drops the child with that identity, if present
SceneRemove(s, id) == SelectSeq(s, LAMBDA a : a.id # id)

\* THREE.Object3D.add: appends the child (detaching it first if already there)
SceneAdd(s, a) == Append(SceneRemove(s, a.id), a)

\* THREE.Object3D.clear: removes every child
SceneClear(s) == << >>

Players(s) == SelectSeq(s, LAMBDA a : a.kind = "player")

ActorIds(s) == {s[i].id : i \in 1..Len(s)}

\* new player.Player({scene, world, character}): the player's mesh_ joins the scene
NewPlayer(s, id, character) ==
    [scene  |-> SceneAdd(s, Actor(id, "player", character)),
     player |-> [mesh |-> id, character |-> character, gameOver |-> FALSE]]

\* new world.WorldManager({scene})
NewWorld(s, id) == SceneAdd(s, Actor(id, "world", "none"))

\* new background.Background({scene})
NewBackground(s, id) == SceneAdd(s, Actor(id, "background", "none"))

\* _InitializeScene: two lights, ground, sky, then world, player, background.
\* Objects get the identities id+1 .. id+7.
InitializeScene(s, id, character) ==
    LET s1 == SceneAdd(s,  Actor(id + 1, "light", "none"))
        s2 == SceneAdd(s1, Actor(id + 2, "light", "none"))
        s3 == SceneAdd(s2, Actor(id + 3, "ground", "none"))
        s4 == SceneAdd(s3, Actor(id + 4, "sky", "none"))
        s5 == NewWorld(s4, id + 5)
        p  == NewPlayer(s5, id + 6, character)
        s7 == NewBackground(p.scene, id + 7)
    IN  [scene |-> s7, world |-> id + 5, player |-> p.player,
         background |-> id + 7, nextId |-> id + 7]

SceneObjects == 7

\* _ResetPlayer without the scene_.remove of the previous player's mesh
ResetPlayerKeepsOld(s, pl, id, character) == NewPlayer(s, id + 1, character)

\* _ResetPlayer: remove the previous player's mesh, construct a new player
ResetPlayer(s, pl, id, character) ==
    NewPlayer(SceneRemove(s, pl.mesh), id + 1, character)

\* _ResetGame without the scene_.clear()
ResetGameNoClear(s, id, character) == InitializeScene(s, id, character)

\* _ResetGame: scene_.clear(), _InitializeScene()  (the caller clears _gameOver)
ResetGame(s, id, character) == InitializeScene(SceneClear(s), id, character)

\* An event as the handlers see it: none of them throws, each returns normally.
\* first / prevClock are filled in by frame callbacks only.
Event(op, arg, from) ==
    [op |-> op, arg |-> arg, from |-> from, outcome |-> "returned",
     first |-> FALSE, prevClock |-> 0]

\* the shader has not been evaluated
ShaderOff == [phase |-> "off"]

\* --------------------------------------------------------------- start-up
\* constructor: _Initialize() runs first (scene built, first frame requested),
\* then the flags and _currentCharacter are assigned.
GameInit ==
    LET built == InitializeScene(<< >>, 0, Undefined)
    IN  /\ gameStarted = FALSE
        /\ gameOver = FALSE
        /\ currentCharacter = DefaultCharacter
        /\ selectValue \in SelectOptions
        /\ scene = built.scene
        /\ player = built.player
        /\ world = built.world
        /\ background = built.background
        /\ nextId = built.nextId
        /\ previousRAF = Null
        /\ rafPending = 1
        /\ menuVisible = TRUE
        /\ overPanelActive = FALSE
        /\ clock = 0
        /\ ticked = FALSE
        /\ tickLog = << >>
        /\ lastSelected = "none"
        /\ thrown = FALSE
        /\ lastEvent = Event("init", "none", "Idle")

Init == GameInit /\ shader = ShaderOff

\* ---------------------------------------------------------------- handlers
\* _OnStart: the play button's onclick
OnStart ==
    /\ nextId + 1 <= MaxObjects
    /\ LET r == ResetPlayer(scene, player, nextId, selectValue)
       IN  /\ currentCharacter' = selectValue
           /\ scene' = r.scene
           /\ player' = r.player
           /\ nextId' = nextId + 1
    /\ menuVisible' = FALSE
    /\ gameStarted' = TRUE
    /\ lastEvent' = Event("start", selectValue, SessionState)
    /\ UNCHANGED <<thrown, shader>>
    /\ UNCHANGED <<gameOver, selectValue, world, background, previousRAF,
                   rafPending, overPanelActive, clock, ticked, tickLog,
                   lastSelected>>

\* _OnCharacterSelect made to rebuild the player at once, as _OnStart does
OnCharacterSelectRebuilds(id) ==
    /\ nextId + 1 <= MaxObjects
    /\ selectValue' = id
    /\ currentCharacter' = id
    /\ lastSelected' = id
    /\ LET r == ResetPlayer(scene, player, nextId, id)
       IN  /\ scene' = r.scene
           /\ player' = r.player
           /\ nextId' = nextId + 1
    /\ lastEvent' = [op |-> "select", arg |-> id, from |-> SessionState,
                     outcome |-> "returned", first |-> FALSE, prevClock |-> 0]
    /\ UNCHANGED <<thrown, shader>>
    /\ UNCHANGED <<gameStarted, gameOver, world, background, previousRAF,
                   rafPending, menuVisible, overPanelActive, clock, ticked,
                   tickLog>>

\* _OnCharacterSelect: the dropdown's change event
OnCharacterSelect(id) ==
    /\ selectValue' = id
    /\ currentCharacter' = id
    /\ lastSelected' = id
    /\ lastEvent' = Event("select", id, SessionState)
    /\ UNCHANGED <<thrown, shader>>
    /\ UNCHANGED <<gameStarted, gameOver, scene, player, world, background,
                   nextId, previousRAF, rafPending, menuVisible,
                   overPanelActive, clock, ticked, tickLog>>

\* _OnReplay without the classList.remove("active") on the game-over panel
OnReplayKeepsPanel ==
    /\ nextId + SceneObjects <= MaxObjects
    /\ LET r == ResetGame(scene, nextId, selectValue)
       IN  /\ currentCharacter' = selectValue
           /\ scene' = r.scene
           /\ player' = r.player
           /\ world' = r.world
           /\ background' = r.background
           /\ nextId' = r.nextId
    /\ gameOver' = FALSE
    /\ gameStarted' = TRUE
    /\ lastEvent' = Event("replay", selectValue, SessionState)
    /\ UNCHANGED <<selectValue, previousRAF, rafPending, menuVisible, clock,
                   ticked, tickLog, lastSelected, overPanelActive, thrown,
                   shader>>

\* _OnReplay: the replay button's onclick
OnReplay ==
    /\ nextId + SceneObjects <= MaxObjects
    /\ LET r == ResetGame(scene, nextId, selectValue)
       IN  /\ currentCharacter' = selectValue
           /\ scene' = r.scene
           /\ player' = r.player
           /\ world' = r.world
           /\ background' = r.background
           /\ nextId' = r.nextId
    /\ overPanelActive' = FALSE
    /\ gameOver' = FALSE
    /\ gameStarted' = TRUE
    /\ lastEvent' = Event("replay", selectValue, SessionState)
    /\ UNCHANGED <<thrown, shader>>
    /\ UNCHANGED <<selectValue, previousRAF, rafPending, menuVisible, clock,
                   ticked, tickLog, lastSelected>>

\* -------------------------------------------------------------- frame loop
\* (t - this.previousRAF_) / 1000.0, kept as the exact quotient num/den
DeltaSeconds(t, prev) == [num |-> t - prev, den |-> MsPerSecond]

NoDelta == [num |-> 0, den |-> 0]

Call(fn, dt) == [fn |-> fn, dt |-> dt]

\* player_.Update(timeElapsed): a collision during the update sets player_.gameOver
PlayerUpdate(pl, timeElapsed, hit) == [pl EXCEPT !.gameOver = pl.gameOver \/ hit]

\* Step_ without either test of _gameOver: it keeps updating after game over
Step_NoOverGuard(started, over, pl, panel, timeElapsed, hit) ==
    IF ~started
    THEN [log |-> << >>, gameOver |-> over, panel |-> panel, player |-> pl]
    ELSE LET pl2 == PlayerUpdate(pl, timeElapsed, hit)
             updates == << Call("player.Update", timeElapsed),
                           Call("world.Update", timeElapsed),
                           Call("background.Update", timeElapsed) >>
         IN  IF pl2.gameOver
             THEN [log |-> Append(updates, Call("game-over.add", NoDelta)),
                   gameOver |-> TRUE, panel |-> TRUE, player |-> pl2]
             ELSE [log |-> updates, gameOver |-> over, panel |-> panel,
                   player |-> pl2]

\* Step_ without the test of _gameStarted: it updates before the game starts
Step_NoStartedGuard(started, over, pl, panel, timeElapsed, hit) ==
    IF over
    THEN [log |-> << >>, gameOver |-> over, panel |-> panel, player |-> pl]
    ELSE LET pl2 == PlayerUpdate(pl, timeElapsed, hit)
             updates == << Call("player.Update", timeElapsed),
                           Call("world.Update", timeElapsed),
                           Call("background.Update", timeElapsed) >>
         IN  IF pl2.gameOver /\ ~over
             THEN [log |-> Append(updates, Call("game-over.add", NoDelta)),
                   gameOver |-> TRUE, panel |-> TRUE, player |-> pl2]
             ELSE [log |-> updates, gameOver |-> over, panel |-> panel,
                   player |-> pl2]

\* Step_ with the world updated before the player
Step_WorldFirst(started, over, pl, panel, timeElapsed, hit) ==
    IF ~started \/ over
    THEN [log |-> << >>, gameOver |-> over, panel |-> panel, player |-> pl]
    ELSE LET pl2 == PlayerUpdate(pl, timeElapsed, hit)
             updates == << Call("world.Update", timeElapsed),
                           Call("player.Update", timeElapsed),
                           Call("background.Update", timeElapsed) >>
         IN  IF pl2.gameOver /\ ~over
             THEN [log |-> Append(updates, Call("game-over.add", NoDelta)),
                   gameOver |-> TRUE, panel |-> TRUE, player |-> pl2]
             ELSE [log |-> updates, gameOver |-> over, panel |-> panel,
                   player |-> pl2]

\* Step_ reading player_.gameOver before the updates instead of after them
Step_PollsFirst(started, over, pl, panel, timeElapsed, hit) ==
    IF ~started \/ over
    THEN [log |-> << >>, gameOver |-> over, panel |-> panel, player |-> pl]
    ELSE LET pl2 == PlayerUpdate(pl, timeElapsed, hit)
             updates == << Call("player.Update", timeElapsed),
                           Call("world.Update", timeElapsed),
                           Call("background.Update", timeElapsed) >>
         IN  IF pl.gameOver /\ ~over
             THEN [log |-> Append(updates, Call("game-over.add", NoDelta)),
                   gameOver |-> TRUE, panel |-> TRUE, player |-> pl2]
             ELSE [log |-> updates, gameOver |-> over, panel |-> panel,
                   player |-> pl2]

\* Step_(timeElapsed): what it calls and what it leaves in _gameOver, the
\* game-over panel and the player
Step_(started, over, pl, panel, timeElapsed, hit) ==
    IF ~started \/ over
    THEN [log |-> << >>, gameOver |-> over, panel |-> panel, player |-> pl]
    ELSE LET pl2 == PlayerUpdate(pl, timeElapsed, hit)
             updates == << Call("player.Update", timeElapsed),
                           Call("world.Update", timeElapsed),
                           Call("background.Update", timeElapsed) >>
         IN  IF pl2.gameOver /\ ~over
             THEN [log |-> Append(updates, Call("game-over.add", NoDelta)),
                   gameOver |-> TRUE, panel |-> TRUE, player |-> pl2]
             ELSE [log |-> updates, gameOver |-> over, panel |-> panel,
                   player |-> pl2]

\* the first statement of the callback left out: the delta counts from time 0
FirstPreviousFromOrigin(prev, t) == IF prev = Null THEN 0 ELSE prev

\* the value of previousRAF_ after the callback's first statement
FirstPrevious(prev, t) == IF prev = Null THEN t ELSE prev

\* this.RAF_() moved to the end of the callback: requested after the work,
\* and not at all when the work throws
ResubmitLast(pending, work, threw) ==
    [log     |-> IF threw THEN work
                 ELSE Append(work, Call("requestAnimationFrame", NoDelta)),
     pending |-> IF threw THEN pending - 1 ELSE (pending - 1) + 1]

\* The callback's own slot is consumed; this.RAF_() requests the next frame
\* before Step_ and render (the work), whether or not the work throws.
Resubmit(pending, work, threw) ==
    [log     |-> << Call("requestAnimationFrame", NoDelta) >> \o work,
     pending |-> (pending - 1) + 1]

\* the callback RAF_ hands to requestAnimationFrame, run with timestamp t
RAFCallback(t, hit) ==
    /\ rafPending > 0
    /\ clock < t /\ t <= MaxTime
    /\ LET prev == FirstPrevious(previousRAF, t)
           st   == Step_(gameStarted, gameOver, player, overPanelActive,
                         DeltaSeconds(t, prev), hit)
           fr   == Resubmit(rafPending,
                            Append(st.log, Call("render", NoDelta)), FALSE)
       IN  /\ tickLog' = fr.log
           /\ rafPending' = fr.pending
           /\ gameOver' = st.gameOver
           /\ overPanelActive' = st.panel
           /\ player' = st.player
    /\ previousRAF' = t
    /\ clock' = t
    /\ ticked' = TRUE
    /\ lastEvent' = [Event("tick", "none", SessionState) EXCEPT
                        !.first = ~ticked, !.prevClock = clock]
    /\ UNCHANGED <<thrown, shader>>
    /\ UNCHANGED <<gameStarted, currentCharacter, selectValue, scene, world,
                   background, nextId, menuVisible, lastSelected>>

\* The same callback when a collaborator throws: `at` is the call that
\* throws (an Update of Step_, or threejs_.render).  Everything up to that
\* call has happened; nothing after it does, previousRAF_ = t included.
UpdateOrder == << "player.Update", "world.Update", "background.Update" >>

IndexOf(seq, x) == CHOOSE i \in 1..Len(seq) : seq[i] = x

RAFCallbackThrows(t, hit, at) ==
    /\ rafPending > 0
    /\ clock < t /\ t <= MaxTime
    /\ at \in {"player.Update", "world.Update", "background.Update"}
          => (gameStarted /\ ~gameOver)
    /\ LET prev == FirstPrevious(previousRAF, t)
           dt   == DeltaSeconds(t, prev)
           st   == Step_(gameStarted, gameOver, player, overPanelActive, dt, hit)
           work == IF at = "render"
                   THEN Append(st.log, Call("render", NoDelta))
                   ELSE [i \in 1..IndexOf(UpdateOrder, at) |->
                            Call(UpdateOrder[i], dt)]
           fr   == Resubmit(rafPending, work, TRUE)
       IN  /\ tickLog' = fr.log
           /\ rafPending' = fr.pending
           /\ previousRAF' = prev
           /\ IF at = "render"
              THEN /\ gameOver' = st.gameOver
                   /\ overPanelActive' = st.panel
                   /\ player' = st.player
              ELSE /\ player' = PlayerUpdate(player, dt, hit)
                   /\ UNCHANGED <<gameOver, overPanelActive>>
    /\ clock' = t
    /\ ticked' = TRUE
    /\ thrown' = TRUE
    /\ lastEvent' = [Event("tick", "none", SessionState) EXCEPT
                        !.first = ~ticked, !.prevClock = clock,
                        !.outcome = "threw"]
    /\ UNCHANGED <<gameStarted, currentCharacter, selectValue, scene, world,
                   background, nextId, menuVisible, lastSelected, shader>>

Next ==
    \/ OnStart
    \/ \E id \in SelectOptions : OnCharacterSelect(id)
    \/ OnReplay
    \/ \E t \in 1..MaxTime, hit \in BOOLEAN : RAFCallback(t, hit)

Spec == Init /\ [][Next]_vars

\* The program with collaborators that may throw out of Update or render.
NextFail ==
    \/ Next
    \/ \E t \in 1..MaxTime, hit \in BOOLEAN,
          at \in {"player.Update", "world.Update", "background.Update", "render"} :
            RAFCallbackThrows(t, hit, at)

SpecFail == Init /\ [][NextFail]_vars

\* ------------------------------------------------------- the PCSS shader
\* Numbers of the shader are exact quotients [num, den]; den = 0 stands for
\* the result of a division by zero (infinite, NaN or unspecified).
Q(n, d) == [num |-> n, den |-> d]

Defined(x) == x.den # 0

QMul(x, y) == Q(x.num * y.num, x.den * y.den)

QDiv(x, y) == IF Defined(x) /\ Defined(y) THEN Q(x.num * y.den, x.den * y.num)
              ELSE Q(0, 0)

QSub(x, y) == Q(x.num * y.den - y.num * x.den, x.den * y.den)

QEq(x, y) == Defined(x) /\ Defined(y) /\ x.num * y.den = y.num * x.den

IsZero(x) == Defined(x) /\ x.num = 0

\* a depth or zReceiver given in multiples of 1/Unit
OfUnits(n) == Q(n, Unit)

\* #define LIGHT_WORLD_SIZE 0.05
LIGHT_WORLD_SIZE == Q(5, 100)
\* #define LIGHT_FRUSTUM_WIDTH 3.75
LIGHT_FRUSTUM_WIDTH == Q(375, 100)
\* #define LIGHT_SIZE_UV (LIGHT_WORLD_SIZE / LIGHT_FRUSTUM_WIDTH)
LIGHT_SIZE_UV == QDiv(LIGHT_WORLD_SIZE, LIGHT_FRUSTUM_WIDTH)
\* #define NEAR_PLANE 1.0
NEAR_PLANE == Q(1, 1)
\* #define NUM_SAMPLES 17
NUM_SAMPLES == 17
BLOCKER_SEARCH_NUM_SAMPLES == NUM_SAMPLES
PCF_NUM_SAMPLES == NUM_SAMPLES

\* unpackRGBAToDepth(texture2D(shadowMap, uv + poissonDisk[i] * radius)), i = 0..N-1.
\* The shadow map holds depth map.a in a disc around uv and map.b outside it.
\* poissonDisk[i] has length ((i+1)/N)^0.75, growing with i (lines 45-51), so
\* the first k taps fall inside the disc and the others outside; k is given
\* with the map.  A zero radius puts every tap on uv itself; an undefined
\* radius leaves the taps anywhere on the map.
Taps(map, radius, k) ==
    IF IsZero(radius)
    THEN [i \in 1..NUM_SAMPLES |-> map.a]
    ELSE [i \in 1..NUM_SAMPLES |-> IF i <= k THEN map.a ELSE map.b]

\* the loop of findBlocker over taps[1..n]: blockerDepthSum and numBlockers
RECURSIVE BlockerLoop(_, _, _)
BlockerLoop(taps, n, zReceiver) ==
    IF n = 0 THEN [sum |-> 0, count |-> 0]
    ELSE LET r == BlockerLoop(taps, n - 1, zReceiver)
         IN  IF taps[n] < zReceiver
             THEN [sum |-> r.sum + taps[n], count |-> r.count + 1]
             ELSE r

\* float searchRadius = LIGHT_SIZE_UV * ( zReceiver - NEAR_PLANE ) / zReceiver
SearchRadius(zReceiver) ==
    QDiv(QMul(LIGHT_SIZE_UV, QSub(OfUnits(zReceiver), NEAR_PLANE)),
         OfUnits(zReceiver))

\* findBlocker: -1.0 when no tap is nearer than the receiver, else the average
findBlocker(map, zReceiver) ==
    LET taps == Taps(map, SearchRadius(zReceiver), map.kB)
        r    == BlockerLoop(taps, BLOCKER_SEARCH_NUM_SAMPLES, zReceiver)
    IN  IF r.count = 0 THEN Q(-1, 1) ELSE QDiv(OfUnits(r.sum), Q(r.count, 1))

\* penumbraSize: (zReceiver - zBlocker) / zBlocker
penumbraSize(zReceiver, zBlocker) == QDiv(QSub(zReceiver, zBlocker), zBlocker)

\* one loop of PCF_Filter over taps[1..n]: the taps not nearer than the receiver
RECURSIVE LitLoop(_, _, _)
LitLoop(taps, n, zReceiver) ==
    IF n = 0 THEN 0
    ELSE LitLoop(taps, n - 1, zReceiver) + (IF zReceiver <= taps[n] THEN 1 ELSE 0)

\* PCF_Filter with the comparison turned round: it counts the occluded taps
PCF_FilterReversed(map, zReceiver, filterRadius) ==
    LET taps == Taps(map, filterRadius, map.kF)
        sum  == 2 * Cardinality({i \in 1..PCF_NUM_SAMPLES : taps[i] < zReceiver})
    IN  Q(sum, 2 * PCF_NUM_SAMPLES)

\* PCF_Filter: two loops of N taps, the second over -poissonDisk[i].yx, which
\* has the length of poissonDisk[i]; sum / (2.0 * N)
PCF_Filter(map, zReceiver, filterRadius) ==
    LET taps == Taps(map, filterRadius, map.kF)
        sum  == LitLoop(taps, PCF_NUM_SAMPLES, zReceiver)
                  + LitLoop(taps, PCF_NUM_SAMPLES, zReceiver)
    IN  Q(sum, 2 * PCF_NUM_SAMPLES)

\* PCSS without the early out on avgBlockerDepth == -1.0
PCSSNoEarlyOut(map, zReceiver) ==
    LET avgBlockerDepth == findBlocker(map, zReceiver)
        penumbraRatio == penumbraSize(OfUnits(zReceiver), avgBlockerDepth)
        filterRadius  == QDiv(QMul(QMul(penumbraRatio, LIGHT_SIZE_UV), NEAR_PLANE),
                              OfUnits(zReceiver))
    IN  [value |-> PCF_Filter(map, zReceiver, filterRadius),
         filtered |-> TRUE, filterRadius |-> filterRadius]

\* PCSS with the guard "zReceiver <= NEAR_PLANE is fully lit" in front
PCSSGuarded(map, zReceiver) ==
    LET avgBlockerDepth == findBlocker(map, zReceiver)
        penumbraRatio == penumbraSize(OfUnits(zReceiver), avgBlockerDepth)
        filterRadius  == QDiv(QMul(QMul(penumbraRatio, LIGHT_SIZE_UV), NEAR_PLANE),
                              OfUnits(zReceiver))
    IN  IF zReceiver <= Unit \/ QEq(avgBlockerDepth, Q(-1, 1))
        THEN [value |-> Q(1, 1), filtered |-> FALSE, filterRadius |-> Q(0, 0)]
        ELSE [value |-> PCF_Filter(map, zReceiver, filterRadius),
              filtered |-> TRUE, filterRadius |-> filterRadius]

\* PCSS: the attenuation, whether the filtering pass ran, and its radius
PCSS(map, zReceiver) ==
    LET avgBlockerDepth == findBlocker(map, zReceiver)
        penumbraRatio == penumbraSize(OfUnits(zReceiver), avgBlockerDepth)
        filterRadius  == QDiv(QMul(QMul(penumbraRatio, LIGHT_SIZE_UV), NEAR_PLANE),
                              OfUnits(zReceiver))
    IN  IF QEq(avgBlockerDepth, Q(-1, 1))
        THEN [value |-> Q(1, 1), filtered |-> FALSE, filterRadius |-> Q(0, 0)]
        ELSE [value |-> PCF_Filter(map, zReceiver, filterRadius),
              filtered |-> TRUE, filterRadius |-> filterRadius]

\* the shadow maps and receivers the shader is evaluated on
ShaderInputs ==
    [phase : {"in"}, a : 0..Unit, b : 0..Unit,
     kB : 0..NUM_SAMPLES, kF : 0..NUM_SAMPLES, z : (0 - Unit)..MaxZ]

InitPCSS == GameInit /\ shader \in ShaderInputs

\* return PCSS( shadowMap, shadowCoord ) for one fragment
GetShadow ==
    /\ shader.phase = "in"
    /\ shader' = [phase |-> "out", a |-> shader.a, b |-> shader.b,
                  kB |-> shader.kB, kF |-> shader.kF, z |-> shader.z,
                  out |-> PCSS(shader, shader.z)]
    /\ UNCHANGED <<gameStarted, gameOver, currentCharacter, selectValue, scene,
                   player, world, background, nextId, previousRAF, rafPending,
                   menuVisible, overPanelActive, clock, ticked, tickLog,
                   lastSelected, thrown, lastEvent>>

NextPCSS == GetShadow

SpecPCSS == InitPCSS /\ [][NextPCSS]_vars

\* ================================================================== claims
\* The scene a fresh start-up builds, and its kinds in order.
Baseline == InitializeScene(<< >>, 0, Undefined).scene

Kinds(s) == [i \in 1..Len(s) |-> s[i].kind]

\* the player object pl is the one player actor of the scene s, bound to c
OnePlayerIn(s, pl, c) ==
    /\ Len(Players(s)) = 1
    /\ Players(s)[1].character = c
    /\ Players(s)[1].id = pl.mesh
    /\ pl.character = c

OnePlayerBoundTo(c) == OnePlayerIn(scene, player, c)

\* C1: start(A) issued while the session is Idle leaves the session Playing,
\* with exactly one player Actor in the Scene, bound to A.
C1_StartFromIdle ==
    (lastEvent.op = "start" /\ lastEvent.from = "Idle")
        => /\ SessionState = "Playing"
           /\ OnePlayerBoundTo(lastEvent.arg)

C1_Witness ==
    /\ lastEvent.op = "start" /\ lastEvent.from = "Idle"
    /\ lastEvent.arg = "Trex"
    /\ SessionState = "Playing"
    /\ OnePlayerBoundTo("Trex")

\* C2: replay(B) issued while the session is GameOver leaves the session
\* Playing with the terminal flag cleared, the player bound to B, a Scene of
\* the start-up baseline's size and kinds, and no Actor of the Scene it found.
C2_ReplayFromGameOver ==
    [][ (lastEvent'.op = "replay" /\ SessionState = "GameOver")
          => /\ SessionState' = "Playing"
             /\ ~gameOver' /\ ~player'.gameOver
             /\ OnePlayerIn(scene', player', lastEvent'.arg)
             /\ Len(scene') = Len(Baseline)
             /\ Kinds(scene') = Kinds(Baseline)
             /\ ActorIds(scene') \cap ActorIds(scene) = {}
             /\ world' \in ActorIds(scene') /\ background' \in ActorIds(scene') ]_vars

C2_Witness ==
    /\ lastEvent.op = "replay" /\ lastEvent.from = "GameOver"
    /\ lastEvent.arg = "Trex"
    /\ SessionState = "Playing"
    /\ OnePlayerBoundTo("Trex")
    /\ Len(scene) = Len(Baseline)

\* C3: start issued in a state other than Idle, or replay in a state other
\* than GameOver, signals a precondition violation and leaves the session
\* state, the selected character and the Scene's actors unchanged.
C3_WrongStateRejected ==
    [][ ( \/ (lastEvent'.op = "start" /\ SessionState # "Idle")
          \/ (lastEvent'.op = "replay" /\ SessionState # "GameOver") )
          => /\ lastEvent'.outcome = "precondition violation"
             /\ UNCHANGED <<gameStarted, gameOver, currentCharacter, scene>> ]_vars

\* C3, the frame condition alone: a misplaced start or replay changes nothing.
C3_WrongStateCorruptsNothing ==
    [][ ( \/ (lastEvent'.op = "start" /\ SessionState # "Idle")
          \/ (lastEvent'.op = "replay" /\ SessionState # "GameOver") )
          => UNCHANGED <<gameStarted, gameOver, currentCharacter, scene>> ]_vars

\* ---- the calls of a frame
UpdateFns == {"player.Update", "world.Update", "background.Update"}

CountFn(log, fn) == Len(SelectSeq(log, LAMBDA c : c.fn = fn))

Updates(log) == SelectSeq(log, LAMBDA c : c.fn \in UpdateFns)

Fns(log) == [i \in 1..Len(log) |-> log[i].fn]

\* C4: entering GameOver is idempotent.  A frame that finds the session
\* GameOver with the player's terminal flag still set changes nothing of the
\* session, the panel, the player or the Scene and shows no panel; the panel
\* is shown exactly once, by the frame that moves Playing to GameOver.
C4_GameOverIdempotent ==
    [][ lastEvent'.op = "tick"
          => /\ (SessionState = "GameOver" /\ player.gameOver)
                   => /\ UNCHANGED <<gameStarted, gameOver, overPanelActive,
                                     player, scene, currentCharacter,
                                     menuVisible>>
                      /\ CountFn(tickLog', "game-over.add") = 0
                      /\ Updates(tickLog') = << >>
             /\ (SessionState = "Playing" /\ SessionState' = "GameOver")
                   => /\ CountFn(tickLog', "game-over.add") = 1
                      /\ overPanelActive'
             /\ CountFn(tickLog', "game-over.add") > 0
                   => (SessionState = "Playing" /\ SessionState' = "GameOver") ]_vars

C4_Witness ==
    /\ lastEvent.op = "tick" /\ lastEvent.from = "GameOver"
    /\ player.gameOver
    /\ SessionState = "GameOver"
    /\ overPanelActive
    /\ CountFn(tickLog, "game-over.add") = 0

\* C5: start or replay given an id outside the roster raises no error and
\* leaves selectedCharacterId at the value it held; the player built by the
\* call is bound to that previously held value.
C5_UnknownIdKeepsSelection ==
    [][ (lastEvent'.op \in {"start", "replay"} /\ lastEvent'.arg \notin Roster)
          => /\ lastEvent'.outcome = "returned"
             /\ currentCharacter' = currentCharacter
             /\ player'.character = currentCharacter ]_vars

\* C6: selectCharacter(id) is accepted in every session state and changes
\* selectedCharacterId only: session state, Scene, player, terminal flag and
\* previous timestamp stay; the next start or replay builds its player with
\* the id selected last.
C6_SelectOnlySelects ==
    /\ [](\A id \in SelectOptions : ENABLED OnCharacterSelect(id))
    /\ [][ /\ lastEvent'.op = "select"
               => /\ currentCharacter' = lastEvent'.arg
                  /\ lastEvent'.outcome = "returned"
                  /\ UNCHANGED <<gameStarted, gameOver, scene, player, world,
                                 background, previousRAF, overPanelActive,
                                 menuVisible, tickLog>>
           /\ (lastEvent'.op \in {"start", "replay"} /\ lastSelected # "none")
               => OnePlayerIn(scene', player', lastSelected)
           /\ lastEvent'.op = "tick" => currentCharacter' = currentCharacter ]_vars

C6_Witness ==
    /\ lastEvent.op \in {"start", "replay"}
    /\ lastSelected = "Trex"
    /\ lastEvent.from = "GameOver"
    /\ OnePlayerBoundTo("Trex")
    /\ DefaultCharacter # "Trex"

\* C7: the Scene never holds more than one player Actor.
C7_AtMostOnePlayer == Len(Players(scene)) <= 1

C7_Witness ==
    /\ lastEvent.op = "start" /\ lastEvent.from = "Playing"
    /\ nextId > 2 * SceneObjects
    /\ Len(Players(scene)) = 1

\* C8: a frame that finds the session Idle or GameOver calls no update; every
\* frame, whatever the state, calls render exactly once.
C8_NoUpdateOutsidePlaying ==
    lastEvent.op = "tick"
        => /\ lastEvent.from \in {"Idle", "GameOver"} => Updates(tickLog) = << >>
           /\ CountFn(tickLog, "render") = 1

C8_Witness ==
    /\ lastEvent.op = "tick" /\ lastEvent.from = "Idle"
    /\ ~lastEvent.first
    /\ Updates(tickLog) = << >>
    /\ CountFn(tickLog, "render") = 1

\* C9: a frame that finds the session Playing calls player.Update, then
\* world.Update, then background.Update, once each, with one and the same
\* delta.
C9_UpdateOrder ==
    (lastEvent.op = "tick" /\ lastEvent.from = "Playing")
        => /\ Fns(Updates(tickLog))
                  = << "player.Update", "world.Update", "background.Update" >>
           /\ \A i, j \in 1..Len(Updates(tickLog)) :
                  Updates(tickLog)[i].dt = Updates(tickLog)[j].dt

C9_Witness ==
    /\ lastEvent.op = "tick" /\ lastEvent.from = "Playing"
    /\ Len(Updates(tickLog)) = 3
    /\ Updates(tickLog)[1].dt.num = 2

\* C10: the delta handed to the updates of the first frame is zero; on every
\* later frame it is (this frame's timestamp - the preceding frame's) / 1000.
C10_Delta ==
    lastEvent.op = "tick"
        => \A i \in 1..Len(Updates(tickLog)) :
              Updates(tickLog)[i].dt =
                  [num |-> IF lastEvent.first THEN 0
                           ELSE clock - lastEvent.prevClock,
                   den |-> 1000]

C10_WitnessFirst ==
    /\ lastEvent.op = "tick" /\ lastEvent.first
    /\ clock > 1
    /\ Len(Updates(tickLog)) = 3
    /\ Updates(tickLog)[1].dt.num = 0

C10_Witness ==
    /\ lastEvent.op = "tick" /\ ~lastEvent.first
    /\ lastEvent.prevClock = 1 /\ clock = 3
    /\ Len(Updates(tickLog)) = 3
    /\ Updates(tickLog)[1].dt = [num |-> 2, den |-> 1000]

\* C11: every frame callback requests exactly one further frame, and does so
\* before any Update or render call of that frame; so exactly one callback is
\* pending between frames, also after a frame whose Update or render threw.
C11_ResubmitFirst ==
    /\ rafPending = 1
    /\ lastEvent.op = "tick"
          => /\ CountFn(tickLog, "requestAnimationFrame") = 1
             /\ tickLog[1].fn = "requestAnimationFrame"

C11_Witness ==
    /\ thrown
    /\ lastEvent.op = "tick" /\ lastEvent.outcome = "returned"
    /\ lastEvent.from = "Playing"
    /\ rafPending = 1
    /\ Len(Updates(tickLog)) = 3

C11_WitnessThrew ==
    /\ lastEvent.op = "tick" /\ lastEvent.outcome = "threw"
    /\ Len(Updates(tickLog)) = 2
    /\ CountFn(tickLog, "render") = 0
    /\ rafPending = 1

\* ---- the shader's taps, read off the inputs
SearchTaps == Taps(shader, SearchRadius(shader.z), shader.kB)

NoBlockerTap == \A i \in 1..NUM_SAMPLES : ~(SearchTaps[i] < shader.z)

FilterTaps == Taps(shader, shader.out.filterRadius, shader.kF)

LitTaps == 2 * Cardinality({i \in 1..NUM_SAMPLES : shader.z <= FilterTaps[i]})

Uniform(d) == shader.a = d /\ shader.b = d

\* C12: when the blocker search finds no tap with depth < zReceiver, PCSS
\* returns 1.0 and the filtering pass does not run; so it does for the map of
\* depth 1.0 everywhere with zReceiver = 0.5.
C12_NoBlockerFullyLit ==
    shader.phase = "out"
        => /\ NoBlockerTap
                => (QEq(shader.out.value, Q(1, 1)) /\ ~shader.out.filtered)
           /\ (Uniform(Unit) /\ 2 * shader.z = Unit)
                => (QEq(shader.out.value, Q(1, 1)) /\ ~shader.out.filtered)

C12_Witness ==
    /\ shader.phase = "out"
    /\ Uniform(Unit) /\ 2 * shader.z = Unit
    /\ NoBlockerTap
    /\ shader.out.value = Q(1, 1)
    /\ ~shader.out.filtered

\* C13: for the map of depth 0.0 everywhere and zReceiver = 0.5, PCSS returns
\* 0.0, wherever the filter's taps fall and although the filter radius comes
\* from an average blocker depth of 0.
C13_FullOcclusion ==
    (shader.phase = "out" /\ Uniform(0) /\ 2 * shader.z = Unit)
        => /\ shader.out.filtered
           /\ QEq(shader.out.value, Q(0, 1))

C13_Witness ==
    /\ shader.phase = "out"
    /\ Uniform(0) /\ 2 * shader.z = Unit
    /\ shader.kF = 5
    /\ shader.out.filtered
    /\ ~Defined(shader.out.filterRadius)
    /\ shader.out.value = Q(0, 2 * NUM_SAMPLES)

C15_FirstFrameIdle ==
    (lastEvent.op = "tick" /\ lastEvent.first)
        => /\ previousRAF = clock
           /\ Updates(tickLog) = << >>
           /\ CountFn(tickLog, "render") = 0

\* C15, amended: the first frame records its timestamp as the previous
\* timestamp and then runs like any other frame: render is called once, and
\* if the session is Playing the three updates run, with delta 0.
C15_FirstFrameZeroDelta ==
    (lastEvent.op = "tick" /\ lastEvent.first)
        => /\ previousRAF = clock
           /\ CountFn(tickLog, "render") = 1
           /\ lastEvent.from = "Playing" <=> Len(Updates(tickLog)) = 3
           /\ lastEvent.from # "Playing" => Updates(tickLog) = << >>
           /\ \A i \in 1..Len(Updates(tickLog)) : Updates(tickLog)[i].dt.num = 0

C15_Witness ==
    /\ lastEvent.op = "tick" /\ lastEvent.first
    /\ lastEvent.from = "Playing"
    /\ clock = 2 /\ previousRAF = 2
    /\ CountFn(tickLog, "render") = 1
    /\ Fns(Updates(tickLog)) = UpdateOrder

\* C16 as claimed: in the frame that moves Playing to GameOver the panel is
\* shown after that frame's render call.
C16_PollAfterRender ==
    (lastEvent.op = "tick" /\ lastEvent.from = "Playing"
         /\ SessionState = "GameOver")
        => /\ CountFn(tickLog, "render") = 1
           /\ CountFn(tickLog, "game-over.add") = 1
           /\ IndexOf(Fns(tickLog), "render")
                 < IndexOf(Fns(tickLog), "game-over.add")

\* C16, amended: a Playing frame runs the updates, then polls the player's
\* terminal flag, then renders.  The session moves to GameOver and the panel
\* is shown inside Step_, before that frame's render call, in the very frame
\* whose player.Update set the flag: no state is Playing with the flag set.
C16_PollBeforeRender ==
    /\ SessionState = "Playing" => ~player.gameOver
    /\ (lastEvent.op = "tick" /\ lastEvent.from = "Playing")
          => IF player.gameOver
             THEN /\ Fns(tickLog) = << "requestAnimationFrame" >> \o UpdateOrder
                                       \o << "game-over.add", "render" >>
                  /\ SessionState = "GameOver"
                  /\ overPanelActive
             ELSE /\ Fns(tickLog) = << "requestAnimationFrame" >> \o UpdateOrder
                                       \o << "render" >>
                  /\ SessionState = "Playing"

C16_Witness ==
    /\ lastEvent.op = "tick" /\ lastEvent.from = "Playing"
    /\ player.gameOver
    /\ SessionState = "GameOver"
    /\ overPanelActive
    /\ IndexOf(Fns(tickLog), "game-over.add") < IndexOf(Fns(tickLog), "render")

\* C17: _gameOver is set only if _gameStarted is: the two flags always read as
\* one of Idle, Playing, GameOver.
C17_OverImpliesStarted ==
    /\ gameOver => gameStarted
    /\ SessionState \in {"Idle", "Playing", "GameOver"}

C17_Witness ==
    /\ gameOver /\ gameStarted
    /\ lastEvent.op = "start" /\ lastEvent.from = "GameOver"
    /\ SessionState = "GameOver"

\* C18: the game-over panel is shown exactly when the session is GameOver, in
\* whatever states start and replay are issued.
C18_PanelIffGameOver == overPanelActive <=> SessionState = "GameOver"

C18_Witness ==
    /\ lastEvent.op = "replay" /\ lastEvent.from = "GameOver"
    /\ ~overPanelActive
    /\ SessionState = "Playing"
    /\ ticked

\* C19: the start menu is visible exactly when the session is Idle.
C19_MenuIffIdle == menuVisible <=> SessionState = "Idle"

\* C20: the player Actor is always bound to a defined character id, the value
\* _currentCharacter held when it was constructed; at start-up, the default.
C20_PlayerCharacterDefined ==
    /\ Len(Players(scene)) = 1
    /\ Players(scene)[1].character = player.character
    /\ player.character # Undefined
    /\ lastEvent.op = "init" => player.character = DefaultCharacter

====
